---- MODULE Spec2Model ----
(***************************************************************************)
(* Model of document_processor.py: the interactive script that converts    *)
(* the word-processor documents of a folder to PDF, merges all PDFs,       *)
(* converts the merged PDF back to DOCX, counts search words and writes an *)
(* audit log.                                                              *)
(*                                                                         *)
(* Strings (file names, page texts, search words) are sequences of         *)
(* one-character strings, so that lower(), strip(), endswith() and the     *)
(* word-boundary regular expression are computed, not assumed.             *)
(* The timestamp prefix that log_output puts before every message is not   *)
(* modelled: a log entry is the message (kind and argument) alone.         *)
(***************************************************************************)
EXTENDS Integers, Sequences, FiniteSets, TLC

VARIABLES
    pc,               \* position of the script / of main
    output_capture,   \* the in-memory log buffer (StringIO), a sequence of entries
    audit_log_file,   \* content of audit_log.txt (empty until written)
    audit_writes,     \* how many times audit_log.txt has been written
    input_folder,     \* "unset", "valid" or "invalid": the os.path.isdir answer
    listing,          \* the source directory's entries, in scandir order
    input_files,      \* main: glob result / ensure_pdf_format: files
    idx,              \* ensure_pdf_format: 1-based position of the for loop
    pdf_files,        \* ensure_pdf_format: the list being built, then main's list
    failed,           \* history: positions of input_files whose processing raised
    temp_dir,         \* the TemporaryDirectory: [state, files]
    merged_pdf,       \* pages (texts) of merged.pdf as written by merge_pdfs
    merge_arg,        \* history: the lists merge_pdfs was called with, in order
    words_to_search,  \* get_words_to_search: words
    open_sessions,    \* Word.Application sessions started and not quit
    open_docs,        \* documents opened and not closed
    output_exists,    \* the final DOCX exists
    trace,            \* history: the pipeline steps entered, in order
    main_outcome,     \* "none", "no_files", "error" or "ok"
    failed_step,      \* history: the step whose exception reached main's handler
    read_result       \* history: what count_word_frequency found at merged.pdf

vars == <<pc, output_capture, audit_log_file, audit_writes, input_folder, listing,
          input_files,
          idx, pdf_files, failed, temp_dir, merged_pdf, merge_arg, words_to_search,
          open_sessions, open_docs, output_exists, trace, main_outcome,
          failed_step, read_result>>

-----------------------------------------------------------------------------
(* Bounds *)

MaxFiles == 3     \* longest directory listing / file list
MaxWords == 2     \* most search words the user enters

-----------------------------------------------------------------------------
(* Strings *)

UpperToLower ==
    [c \in {"T", "H", "E", "P", "D", "F"} |->
        CASE c = "T" -> "t" [] c = "H" -> "h" [] c = "E" -> "e"
          [] c = "P" -> "p" [] c = "D" -> "d" [] c = "F" -> "f"]

LowerChar(c) == IF c \in DOMAIN UpperToLower THEN UpperToLower[c] ELSE c

\* str.lower()
Lower(s) == [i \in 1..Len(s) |-> LowerChar(s[i])]

IsSpace(c) == c = " "

RECURSIVE LStrip(_)
LStrip(s) == IF s # <<>> /\ IsSpace(Head(s)) THEN LStrip(Tail(s)) ELSE s

RECURSIVE RStrip(_)
RStrip(s) ==
    IF s # <<>> /\ IsSpace(s[Len(s)]) THEN RStrip(SubSeq(s, 1, Len(s) - 1)) ELSE s

\* str.strip()
Strip(s) == RStrip(LStrip(s))

\* str.endswith(suffix)
EndsWith(s, suffix) ==
    /\ Len(suffix) <= Len(s)
    /\ SubSeq(s, Len(s) - Len(suffix) + 1, Len(s)) = suffix

DotDocx == <<".", "d", "o", "c", "x">>
DotDoc  == <<".", "d", "o", "c">>
DotPdf  == <<".", "p", "d", "f">>

\* os.path.splitext(name)[0]: the name up to its last dot
RECURSIVE SplitExtRoot(_)
SplitExtRoot(name) ==
    IF name = <<>> THEN <<>>
    ELSE IF name[Len(name)] = "."
         THEN SubSeq(name, 1, Len(name) - 1)
         ELSE SplitExtRoot(SubSeq(name, 1, Len(name) - 1))

HasDot(name) == \E i \in 1..Len(name) : name[i] = "."

-----------------------------------------------------------------------------
(* Files *)

Names ==
    { <<"a", ".", "d", "o", "c", "x">>,
      <<"a", ".", "d", "o", "c">>,
      <<"b", ".", "p", "d", "f">>,
      <<"c", ".", "P", "D", "F">>,
      <<"d", ".", "t", "x", "t">> }

InPath(name) == [dir |-> "in", name |-> name]

Files == { InPath(n) : n \in Names }

\* text of the single page of the document with this base name
TextOf(path) ==
    CASE path.name[1] = "a" ->
            <<"T", "h", "e", " ", "c", "a", "t", " ", "s", "a", "t">>
      [] path.name[1] = "b" ->
            <<"c", "a", "t", "e", "g", "o", "r", "y", " ", "t", "h", "e">>
      [] OTHER ->
            <<"t", "h", "e", " ", "T", "H", "E">>

MergedPdfPath == [dir |-> "tmp", name |-> <<"m", "e", "r", "g", "e", "d", ".", "p", "d", "f">>]

BSeq(S, n) == UNION { [1..k -> S] : k \in 0..n }

\* one entry of the log: the kind of message and the value formatted into it
Msg(k, a) == [k |-> k, a |-> a]

\* glob.glob(os.path.join(input_dir, "*" + suffix)): the entries whose name ends
\* with the suffix, in directory order; file names compare case-insensitively
\* on the platform the script runs on (it drives Word through win32com)
Glob(entries, suffix) ==
    SelectSeq(entries, LAMBDA p : EndsWith(Lower(p.name), suffix))

-----------------------------------------------------------------------------
(* log_output and display_intro *)

LogOutput(buf, k, a) == Append(buf, Msg(k, a))

IntroLines == 23

DisplayIntro(buf) == buf \o [i \in 1..IntroLines |-> Msg("intro", i)]

-----------------------------------------------------------------------------
(* convert_docx_to_pdf *)

ConvertOutcomes ==
    {"ok", "dispatch_raises", "open_raises", "saveas_raises", "close_raises",
     "quit_raises"}

\* The call runs Dispatch, Open, SaveAs, Close, Quit in that order with no
\* try/finally; the outcome names the first call that raises, if any.
\* word, doc: the sessions and documents the call leaves open.
ConvertDocxToPdf(docx_file, output_dir, outcome) ==
    [raised     |-> outcome # "ok",
     output_pdf |-> [dir |-> output_dir,
                     name |-> (IF HasDot(docx_file.name)
                               THEN SplitExtRoot(docx_file.name)
                               ELSE docx_file.name) \o DotPdf],
     word       |-> IF outcome \in {"open_raises", "saveas_raises", "close_raises",
                                    "quit_raises"} THEN 1 ELSE 0,
     doc        |-> IF outcome \in {"saveas_raises", "close_raises"} THEN 1 ELSE 0,
     saved      |-> outcome \in {"close_raises", "quit_raises", "ok"}]

-----------------------------------------------------------------------------
(* ensure_pdf_format *)

ClassifyCaseSensitive(file) ==
    IF EndsWith(file.name, DotDocx) \/ EndsWith(file.name, DotDoc) THEN "word"
    ELSE IF EndsWith(file.name, DotPdf) THEN "pdf"
    ELSE "unsupported"

\* the if / elif / else on file.lower().endswith(...)
Classify(file) ==
    IF EndsWith(Lower(file.name), DotDocx) \/ EndsWith(Lower(file.name), DotDoc)
    THEN "word"
    ELSE IF EndsWith(Lower(file.name), DotPdf) THEN "pdf"
    ELSE "unsupported"

-----------------------------------------------------------------------------
(* count_word_frequency *)

IsWordChar(c) == c \notin {" ", "."}

WordAt(text, i) == i >= 1 /\ i <= Len(text) /\ IsWordChar(text[i])

\* regex \b between positions i-1 and i
Boundary(text, i) == WordAt(text, i - 1) # WordAt(text, i)

\* \bword\b matches at position i, case-insensitively (re.IGNORECASE)
MatchAt(word, text, i) ==
    /\ i + Len(word) - 1 <= Len(text)
    /\ Lower(SubSeq(text, i, i + Len(word) - 1)) = Lower(word)
    /\ Boundary(text, i)
    /\ Boundary(text, i + Len(word))

\* len(re.findall(...)): non-overlapping matches, scanning from position i
RECURSIVE FindAll(_, _, _)
FindAll(word, text, i) ==
    IF i > Len(text) THEN 0
    ELSE IF MatchAt(word, text, i)
         THEN 1 + FindAll(word, text, i + Len(word))
         ELSE FindAll(word, text, i + 1)

\* for word in words_to_search: word_counts[word] += ...
RECURSIVE CountPage(_, _, _)
CountPage(word_counts, words, text) ==
    IF words = <<>> THEN word_counts
    ELSE CountPage([word_counts EXCEPT ![Head(words)] = @ + FindAll(Head(words), text, 1)],
                   Tail(words), text)

RECURSIVE CountPages(_, _, _)
CountPages(word_counts, words, pages) ==
    IF pages = <<>> THEN word_counts
    ELSE CountPages(CountPage(word_counts, words, Lower(Head(pages))), words,
                    Tail(pages))

Range(s) == { s[i] : i \in DOMAIN s }

CountWordFrequency(pages, words) ==
    CountPages([w \in Range(words) |-> 0], words, pages)

\* the keys of word_counts in insertion order: first occurrences in the list
RECURSIVE DictKeys(_)
DictKeys(words) ==
    IF words = <<>> THEN <<>>
    ELSE LET rest == DictKeys(SubSeq(words, 1, Len(words) - 1))
             last == words[Len(words)]
         IN  IF last \in Range(rest) THEN rest ELSE Append(rest, last)

\* log_output of the heading and of one line per item of word_counts
ReportLines(word_counts, words) ==
    <<Msg("Word Frequency Results", <<>>)>> \o
    [i \in 1..Len(DictKeys(words)) |->
        Msg("occurrences", <<DictKeys(words)[i], word_counts[DictKeys(words)[i]]>>)]

-----------------------------------------------------------------------------
(* The temporary workspace and main's exception handler *)

NoWorkspace == [state |-> "none", files |-> {}]

\* tempfile.TemporaryDirectory().__enter__
TemporaryDirectoryEnter == [state |-> "exists", files |-> {}]

TemporaryDirectoryKeep(ws) == ws

\* TemporaryDirectory.__exit__: the directory and its content are removed
TemporaryDirectoryExit(ws) == [state |-> "deleted", files |-> {}]

MainExceptSilent(buf, step) == buf

\* except Exception as e: log_output(f"An error occurred: {e}")
MainExcept(buf, step) == LogOutput(buf, "An error occurred", step)

\* An exception leaves the with block (the workspace is removed), reaches the
\* handler of main, is logged, and main returns after the finally clause.
RaiseInMain(step, buf, tr) ==
    /\ temp_dir' = TemporaryDirectoryExit(temp_dir)
    /\ output_capture' = MainExcept(buf, step)
    /\ trace' = Append(tr, "cleanup")
    /\ main_outcome' = "error"
    /\ failed_step' = step
    /\ pc' = "after_main"

\* The with block ends normally, then line 152, then main returns.
LeaveMain(buf, tr) ==
    /\ temp_dir' = TemporaryDirectoryExit(temp_dir)
    /\ output_capture' = LogOutput(buf, "Merged document saved as", "output_file")
    /\ trace' = Append(tr, "cleanup")
    /\ main_outcome' = "ok"
    /\ pc' = "after_main"

-----------------------------------------------------------------------------
(* The inputs *)

Listings ==
    { s \in BSeq(Files, MaxFiles) : \A i, j \in DOMAIN s : i # j => s[i] # s[j] }

\* what the user may type at the search-word prompt
RawInputs ==
    { <<>>, <<" ">>,
      <<"t", "h", "e">>, <<"T", "h", "e">>,
      <<" ", "c", "a", "t", " ">>, <<"a", "t">> }

-----------------------------------------------------------------------------
(* The script *)

Init ==
    /\ pc = "start"
    /\ output_capture = <<>>
    /\ audit_log_file = <<>>
    /\ audit_writes = 0
    /\ input_folder = "unset"
    /\ listing = <<>>
    /\ input_files = <<>>
    /\ idx = 1
    /\ pdf_files = <<>>
    /\ failed = {}
    /\ temp_dir = NoWorkspace
    /\ merged_pdf = <<>>
    /\ merge_arg = <<>>
    /\ words_to_search = <<>>
    /\ open_sessions = 0
    /\ open_docs = 0
    /\ output_exists = FALSE
    /\ trace = <<>>
    /\ main_outcome = "none"
    /\ failed_step = "none"
    /\ read_result = "none"

\* lines 160-163: the start message and the banner
StartScript ==
    /\ pc = "start"
    /\ output_capture' =
            DisplayIntro(LogOutput(output_capture, "Script execution started at", "start_time"))
    /\ pc' = "ask_folder"
    /\ UNCHANGED <<audit_log_file, audit_writes, input_folder, listing, input_files,
                   idx, pdf_files, failed, temp_dir, merged_pdf, merge_arg,
                   words_to_search, open_sessions, open_docs, output_exists, trace,
                   main_outcome, failed_step, read_result>>

\* lines 164-171: the folder prompt and, for a directory, the output name prompt
AskFolder ==
    /\ pc = "ask_folder"
    /\ \E isdir \in BOOLEAN :
         IF ~isdir
         THEN /\ input_folder' = "invalid"
              /\ listing' = <<>>
              /\ output_capture' =
                     LogOutput(output_capture,
                               "The provided path is not a valid directory.", <<>>)
              /\ pc' = "epilogue"
         ELSE /\ input_folder' = "valid"
              /\ \E entries \in Listings : listing' = entries
              /\ output_capture' = output_capture
              /\ pc' = "main"
    /\ UNCHANGED <<audit_log_file, audit_writes, input_files, idx, pdf_files, failed,
                   temp_dir, merged_pdf, merge_arg, words_to_search, open_sessions,
                   open_docs, output_exists, trace, main_outcome, failed_step,
                   read_result>>

MainEnterNoCheck ==
    /\ pc = "main"
    /\ LET files == Glob(listing, DotDocx) \o Glob(listing, DotDoc) \o Glob(listing, DotPdf)
           buf == LogOutput(output_capture, "Analysis started for input directory", "input_dir")
       IN  /\ input_files' = files
           /\ temp_dir' = TemporaryDirectoryEnter
           /\ output_capture' =
                  LogOutput(buf, "Ensuring all files are in PDF format...", <<>>)
           /\ trace' = Append(trace, "normalize")
           /\ idx' = 1
           /\ pc' = "normalize"
           /\ UNCHANGED main_outcome
    /\ UNCHANGED <<audit_log_file, audit_writes, input_folder, listing, pdf_files,
                   failed, merged_pdf, merge_arg, words_to_search, open_sessions,
                   open_docs, output_exists, failed_step, read_result>>

\* lines 126-136: main up to the call of ensure_pdf_format, or its early return
MainEnter ==
    /\ pc = "main"
    /\ LET files == Glob(listing, DotDocx) \o Glob(listing, DotDoc) \o Glob(listing, DotPdf)
           buf == LogOutput(output_capture, "Analysis started for input directory", "input_dir")
       IN  /\ input_files' = files
           /\ IF files = <<>>
              THEN /\ temp_dir' = TemporaryDirectoryExit(TemporaryDirectoryEnter)
                   /\ output_capture' =
                          LogOutput(buf, "No DOC, DOCX, or PDF files found in the directory.", <<>>)
                   /\ trace' = Append(trace, "cleanup")
                   /\ main_outcome' = "no_files"
                   /\ idx' = idx
                   /\ pc' = "after_main"
              ELSE /\ temp_dir' = TemporaryDirectoryEnter
                   /\ output_capture' =
                          LogOutput(buf, "Ensuring all files are in PDF format...", <<>>)
                   /\ trace' = Append(trace, "normalize")
                   /\ main_outcome' = main_outcome
                   /\ idx' = 1
                   /\ pc' = "normalize"
    /\ UNCHANGED <<audit_log_file, audit_writes, input_folder, listing, pdf_files,
                   failed, merged_pdf, merge_arg, words_to_search, open_sessions,
                   open_docs, output_exists, failed_step, read_result>>

\* lines 86-98: one iteration of the for loop of ensure_pdf_format
NormalizeFile ==
    /\ pc = "normalize"
    /\ idx <= Len(input_files)
    /\ LET file == input_files[idx]
       IN  CASE Classify(file) = "word" ->
                  \E outcome \in ConvertOutcomes :
                     LET r == ConvertDocxToPdf(file, "tmp", outcome)
                     IN  /\ open_sessions' = open_sessions + r.word
                         /\ open_docs' = open_docs + r.doc
                         /\ temp_dir' =
                                IF r.saved
                                THEN [temp_dir EXCEPT !.files = @ \cup {r.output_pdf}]
                                ELSE temp_dir
                         /\ IF r.raised
                            THEN /\ pdf_files' = pdf_files
                                 /\ failed' = failed \cup {idx}
                                 /\ output_capture' =
                                        LogOutput(output_capture, "Error processing file",
                                                  <<file, outcome>>)
                            ELSE /\ pdf_files' = Append(pdf_files, r.output_pdf)
                                 /\ failed' = failed
                                 /\ output_capture' =
                                        LogOutput(output_capture, "Converted to PDF", file)
             [] Classify(file) = "pdf" ->
                  /\ pdf_files' = Append(pdf_files, file)
                  /\ output_capture' =
                         LogOutput(output_capture, "Added existing PDF", file)
                  /\ UNCHANGED <<open_sessions, open_docs, temp_dir, failed>>
             [] OTHER ->
                  /\ output_capture' =
                         LogOutput(output_capture, "Skipping unsupported file format", file)
                  /\ UNCHANGED <<pdf_files, open_sessions, open_docs, temp_dir, failed>>
    /\ idx' = idx + 1
    /\ UNCHANGED <<pc, audit_log_file, audit_writes, input_folder, listing, input_files,
                   merged_pdf, merge_arg, words_to_search, output_exists, trace,
                   main_outcome, failed_step, read_result>>

\* line 99: the loop is over, ensure_pdf_format returns pdf_files
EnsureReturn ==
    /\ pc = "normalize"
    /\ idx > Len(input_files)
    /\ pc' = "normalized"
    /\ UNCHANGED <<output_capture, audit_log_file, audit_writes, input_folder, listing,
                   input_files, idx, pdf_files, failed, temp_dir, merged_pdf, merge_arg,
                   words_to_search, open_sessions, open_docs, output_exists, trace,
                   main_outcome, failed_step, read_result>>

\* An exception that leaves ensure_pdf_format: raised outside the per-file try
\* (building the progress iterator, line 86) or inside its handler (line 98)
NormalizeRaise ==
    /\ pc = "normalize"
    /\ RaiseInMain("normalize", output_capture, trace)
    /\ UNCHANGED <<audit_log_file, audit_writes, input_folder, listing, input_files,
                   idx, pdf_files, failed, merged_pdf, merge_arg, words_to_search,
                   open_sessions, open_docs, output_exists, read_result>>

\* merge_pdfs writes the pages of the listed PDFs, in order, to output_pdf
MergePdfs(files) == [i \in 1..Len(files) |-> TextOf(files[i])]

\* lines 138-140: merge_pdfs(pdf_files, merged_pdf)
MergeStep ==
    /\ pc = "normalized"
    /\ merge_arg' = Append(merge_arg, pdf_files)
    /\ LET buf == LogOutput(output_capture, "Merging PDF files...", <<>>)
           tr == Append(trace, "merge")
       IN  \E raises \in BOOLEAN :
              IF raises
              THEN /\ RaiseInMain("merge", buf, tr)
                   /\ UNCHANGED merged_pdf
              ELSE /\ temp_dir' = [temp_dir EXCEPT !.files = @ \cup {MergedPdfPath}]
                   /\ merged_pdf' = MergePdfs(pdf_files)
                   /\ output_capture' = buf
                   /\ trace' = tr
                   /\ pc' = "convert_back"
                   /\ UNCHANGED <<main_outcome, failed_step>>
    /\ UNCHANGED <<audit_log_file, audit_writes, input_folder, listing, input_files,
                   idx, pdf_files, failed, words_to_search, open_sessions, open_docs,
                   output_exists, read_result>>

\* lines 142-145 and 103-104: convert_pdf_to_docx(merged_pdf, output_file), then
\* the prompt of get_words_to_search
ConvertBackStep ==
    /\ pc = "convert_back"
    /\ LET buf == LogOutput(output_capture, "Converting merged PDF to DOCX...", <<>>)
           tr == Append(trace, "convert_back")
       IN  \E raises \in BOOLEAN :
              IF raises
              THEN /\ RaiseInMain("convert_back", buf, tr)
                   /\ UNCHANGED output_exists
              ELSE /\ output_exists' = TRUE
                   /\ output_capture' = LogOutput(buf, "Enter words to search for", <<>>)
                   /\ trace' = tr
                   /\ pc' = "get_words"
                   /\ UNCHANGED <<temp_dir, main_outcome, failed_step>>
    /\ UNCHANGED <<audit_log_file, audit_writes, input_folder, listing, input_files,
                   idx, pdf_files, failed, merged_pdf, merge_arg, words_to_search,
                   open_sessions, open_docs, read_result>>

\* lines 105-111 and 146: one pass of the input loop of get_words_to_search; a
\* blank line ends it, and an empty list ends the with block without counting
ReadWord ==
    /\ pc = "get_words"
    /\ \E raw \in RawInputs :
         LET word == Lower(Strip(raw))
         IN  IF word = <<>>
             THEN /\ words_to_search' = words_to_search
                  /\ IF words_to_search # <<>>
                     THEN /\ pc' = "count_words"
                          /\ UNCHANGED <<temp_dir, output_capture, trace, main_outcome>>
                     ELSE LeaveMain(output_capture, trace)
             ELSE /\ Len(words_to_search) < MaxWords
                  /\ words_to_search' = Append(words_to_search, word)
                  /\ output_capture' = LogOutput(output_capture, "Added search word", word)
                  /\ UNCHANGED <<pc, temp_dir, trace, main_outcome>>
    /\ UNCHANGED <<audit_log_file, audit_writes, input_folder, listing, input_files,
                   idx, pdf_files, failed, merged_pdf, merge_arg, open_sessions,
                   open_docs, output_exists, failed_step, read_result>>

\* PdfReader(pdf_file): the file must be there to be read
PdfFound(ws, path) == ws.state = "exists" /\ path \in ws.files

CountWordsStepAfterExit ==
    /\ pc = "count_words"
    /\ LET tr == Append(Append(trace, "cleanup"), "count_words")
           ws == TemporaryDirectoryExit(temp_dir)
           found == PdfFound(ws, MergedPdfPath)
       IN  /\ read_result' = IF found THEN "found" ELSE "missing"
           /\ temp_dir' = ws
           /\ trace' = tr
           /\ pc' = "after_main"
           /\ \E raises \in BOOLEAN :
                 IF raises \/ ~found
                 THEN /\ output_capture' = MainExcept(output_capture, "count_words")
                      /\ main_outcome' = "error"
                      /\ failed_step' = "count_words"
                 ELSE /\ output_capture' =
                             LogOutput(output_capture \o
                                       ReportLines(CountWordFrequency(merged_pdf, words_to_search),
                                                   words_to_search),
                                       "Merged document saved as", "output_file")
                      /\ main_outcome' = "ok"
                      /\ UNCHANGED failed_step
    /\ UNCHANGED <<audit_log_file, audit_writes, input_folder, listing, input_files,
                   idx, pdf_files, failed, merged_pdf, merge_arg, words_to_search,
                   open_sessions, open_docs, output_exists>>

\* lines 147-152: count_word_frequency(merged_pdf, words_to_search), the report,
\* the end of the with block and the final message
CountWordsStep ==
    /\ pc = "count_words"
    /\ LET tr == Append(trace, "count_words")
           found == PdfFound(temp_dir, MergedPdfPath)
       IN  /\ read_result' = IF found THEN "found" ELSE "missing"
           /\ \E raises \in BOOLEAN :
                 IF raises \/ ~found
                 THEN RaiseInMain("count_words", output_capture, tr)
                 ELSE /\ LeaveMain(output_capture \o
                                   ReportLines(CountWordFrequency(merged_pdf, words_to_search),
                                               words_to_search),
                                   tr)
                      /\ UNCHANGED failed_step
    /\ UNCHANGED <<audit_log_file, audit_writes, input_folder, listing, input_files,
                   idx, pdf_files, failed, merged_pdf, merge_arg, words_to_search,
                   open_sessions, open_docs, output_exists>>

WriteAuditLogEmpty(buf) == <<>>

\* log_file.write(output_capture.getvalue()): the file receives the whole buffer
WriteAuditLog(buf) == buf

\* lines 173-183: after main, the existence check and the audit log file
AfterMain ==
    /\ pc = "after_main"
    /\ LET buf == LogOutput(LogOutput(output_capture, "File should be saved at", "output_docx"),
                            IF output_exists THEN "File successfully created!"
                            ELSE "ERROR! File was not created.", <<>>)
       IN  /\ audit_log_file' = WriteAuditLog(buf)
           /\ audit_writes' = audit_writes + 1
           /\ output_capture' = LogOutput(buf, "Audit log file created at", "audit_log_file")
    /\ pc' = "epilogue"
    /\ UNCHANGED <<input_folder, listing, input_files, idx, pdf_files, failed, temp_dir,
                   merged_pdf, merge_arg, words_to_search, open_sessions, open_docs,
                   output_exists, trace, main_outcome, failed_step, read_result>>

\* lines 185-189: the closing messages
Epilogue ==
    /\ pc = "epilogue"
    /\ output_capture' =
           LogOutput(LogOutput(output_capture, "Script execution completed at", "end_time"),
                     "Total execution time", "end_time - start_time")
    /\ pc' = "done"
    /\ UNCHANGED <<audit_log_file, audit_writes, input_folder, listing, input_files,
                   idx, pdf_files, failed, temp_dir, merged_pdf, merge_arg,
                   words_to_search, open_sessions, open_docs, output_exists, trace,
                   main_outcome, failed_step, read_result>>

Next ==
    \/ StartScript
    \/ AskFolder
    \/ MainEnter
    \/ NormalizeFile
    \/ EnsureReturn
    \/ NormalizeRaise
    \/ MergeStep
    \/ ConvertBackStep
    \/ ReadWord
    \/ CountWordsStep
    \/ AfterMain
    \/ Epilogue

Spec == Init /\ [][Next]_vars

-----------------------------------------------------------------------------
(* ensure_pdf_format on its own: any list of paths, any conversion outcomes *)

InitNorm ==
    /\ pc = "normalize"
    /\ output_capture = <<>>
    /\ audit_log_file = <<>>
    /\ audit_writes = 0
    /\ input_folder = "valid"
    /\ listing = <<>>
    /\ input_files \in BSeq(Files, MaxFiles)
    /\ idx = 1
    /\ pdf_files = <<>>
    /\ failed = {}
    /\ temp_dir = TemporaryDirectoryEnter
    /\ merged_pdf = <<>>
    /\ merge_arg = <<>>
    /\ words_to_search = <<>>
    /\ open_sessions = 0
    /\ open_docs = 0
    /\ output_exists = FALSE
    /\ trace = <<"normalize">>
    /\ main_outcome = "none"
    /\ failed_step = "none"
    /\ read_result = "none"

NextNorm == NormalizeFile \/ EnsureReturn

SpecNorm == InitNorm /\ [][NextNorm]_vars

-----------------------------------------------------------------------------
(* Properties *)

Returned == pc \in {"after_main", "epilogue", "done"}

LogKinds(buf, k) == { i \in DOMAIN buf : buf[i].k = k }

C1_IsWordDoc(f) ==
    \E suffix \in {DotDocx, DotDoc} : EndsWith(Lower(f.name), suffix)

C1_IsPdf(f) == ~C1_IsWordDoc(f) /\ EndsWith(Lower(f.name), DotPdf)

C1_Kept ==
    SelectSeq([i \in 1..Len(input_files) |-> i],
              LAMBDA i : \/ C1_IsPdf(input_files[i])
                         \/ C1_IsWordDoc(input_files[i]) /\ i \notin failed)

C1_Expected ==
    [j \in 1..Len(C1_Kept) |->
        LET f == input_files[C1_Kept[j]]
        IN  IF C1_IsPdf(f) THEN f
            ELSE [dir |-> "tmp", name |-> SplitExtRoot(f.name) \o DotPdf]]

\* C1: when ensure_pdf_format returns, its result is the in-order subsequence
\* of the input made of the PDFs, unchanged, and the converted PDF of every
\* .doc/.docx whose conversion did not raise; every file got exactly one log
\* line, in input order, and the line of a failed file is the error line
\* naming that file, so a failure stops nothing after it.
C1_NormalizerOutput ==
    pc = "normalized" =>
        /\ pdf_files = C1_Expected
        /\ Len(output_capture) = Len(input_files)
        /\ \A i \in 1..Len(input_files) :
              /\ (i \in failed) <=> (output_capture[i].k = "Error processing file")
              /\ IF i \in failed
                 THEN output_capture[i].a[1] = input_files[i]
                 ELSE output_capture[i].a = input_files[i]

C1_Witness ==
    /\ pc = "normalized"
    /\ \E i, j, k \in 1..Len(input_files) :
          /\ i < j
          /\ i \in failed
          /\ C1_IsPdf(input_files[j])
          /\ ~C1_IsPdf(input_files[k]) /\ ~C1_IsWordDoc(input_files[k])
    /\ pdf_files # <<>>

\* C2: once main has acquired the temporary workspace, the workspace and its
\* content are gone whenever main has returned, whatever the exit path.
C2_WorkspaceDeleted ==
    (Returned /\ main_outcome # "none") =>
        temp_dir = [state |-> "deleted", files |-> {}]

C2_Witness ==
    /\ pc = "after_main"
    /\ main_outcome = "error"
    /\ failed_step = "convert_back"
    /\ temp_dir.state = "deleted"

\* C3: every run that reaches its end has written audit_log.txt.
C3_AuditLogAlwaysWritten == pc = "done" => audit_writes >= 1

AfterWriteMessages ==
    << Msg("Audit log file created at", "audit_log_file"),
       Msg("Script execution completed at", "end_time"),
       Msg("Total execution time", "end_time - start_time") >>

NoMatchingFile(entries) ==
    \A i \in DOMAIN entries :
        \A suffix \in {DotDocx, DotDoc, DotPdf} :
            ~EndsWith(Lower(entries[i].name), suffix)

NoneFoundLogged(buf) ==
    LogKinds(buf, "No DOC, DOCX, or PDF files found in the directory.") # {}

\* C5 as stated: a run on a valid directory without matching files logs that
\* none were found and ends without audit_log.txt being written.
C5_NoAuditLogWithoutFiles ==
    (pc = "done" /\ input_folder = "valid" /\ NoMatchingFile(listing)) =>
        /\ NoneFoundLogged(output_capture)
        /\ audit_writes = 0

\* C5 amended: such a run logs that none were found, main returns before any
\* pipeline step and without output, and the top-level flow then goes on to
\* write audit_log.txt, which holds the none-found message.
C5_AuditLogWithoutFiles ==
    (pc = "done" /\ input_folder = "valid" /\ NoMatchingFile(listing)) =>
        /\ NoneFoundLogged(output_capture)
        /\ trace = <<"cleanup">>
        /\ merge_arg = <<>>
        /\ ~output_exists
        /\ audit_writes = 1
        /\ NoneFoundLogged(audit_log_file)

C5_Witness ==
    /\ pc = "done"
    /\ input_folder = "valid"
    /\ listing # <<>>
    /\ NoMatchingFile(listing)
    /\ audit_writes = 1

RECURSIVE Occurrences(_, _)
Occurrences(word, pages) ==
    IF pages = <<>> THEN 0
    ELSE FindAll(word, Lower(Head(pages)), 1) + Occurrences(word, Tail(pages))

HasDuplicate(words) ==
    \E i, j \in DOMAIN words : i # j /\ words[i] = words[j]

\* C6: when the search words hold entries that are equal after trimming and
\* lowercasing, the count reported for a word is its number of whole-word
\* occurrences in the merged text, each counted once.
C6_DuplicateCountedOnce ==
    HasDuplicate(words_to_search) =>
        \A i \in LogKinds(output_capture, "occurrences") :
            output_capture[i].a[2] = Occurrences(output_capture[i].a[1], merged_pdf)

\* C7: after every conversion, returned or raised, no automation session and
\* no document handle is left open.
C7_NoSessionLeftOpen == open_sessions = 0 /\ open_docs = 0

StepOrder == <<"normalize", "merge", "convert_back", "count_words">>

StepRank(step) ==
    CASE step = "normalize" -> 1 [] step = "merge" -> 2 [] step = "convert_back" -> 3
      [] step = "count_words" -> 4 [] step = "cleanup" -> 5

\* C8: an exception raised in a pipeline step of main reaches the handler of
\* main: it is logged exactly once with its text, main returns to its caller,
\* no step after the failing one has run, and the success message is absent.
C8_TopLevelHandler ==
    main_outcome = "error" =>
        /\ Returned
        /\ failed_step \in Range(StepOrder)
        /\ Cardinality(LogKinds(output_capture, "An error occurred")) = 1
        /\ \A i \in LogKinds(output_capture, "An error occurred") :
              output_capture[i].a = failed_step
        /\ trace = Append(SubSeq(StepOrder, 1, StepRank(failed_step)), "cleanup")
        /\ LogKinds(output_capture, "Merged document saved as") = {}
        /\ pc = "done" => LogKinds(output_capture, "File should be saved at") # {}

C8_Witness ==
    /\ pc = "done"
    /\ main_outcome = "error"
    /\ failed_step = "merge"
    /\ Cardinality(LogKinds(output_capture, "An error occurred")) = 1

\* C9: merge_pdfs is never called with an empty list.
C9_MergeNeverEmpty == \A i \in DOMAIN merge_arg : Len(merge_arg[i]) >= 1

\* C10: the steps run in the order normalize, merge, convert-back, count-words,
\* workspace deletion; the counter runs only after merge and convert-back have
\* completed and finds merged.pdf still in the workspace; with no search word
\* the counter is not called and no report is logged.
C10_StepOrder ==
    /\ \A i, j \in DOMAIN trace : i < j => StepRank(trace[i]) < StepRank(trace[j])
    /\ "count_words" \in Range(trace) =>
          /\ {"merge", "convert_back"} \subseteq Range(trace)
          /\ output_exists
          /\ read_result = "found"
    /\ read_result # "missing"
    /\ (Returned /\ words_to_search = <<>>) =>
          /\ "count_words" \notin Range(trace)
          /\ LogKinds(output_capture, "Word Frequency Results") = {}
          /\ LogKinds(output_capture, "occurrences") = {}

C10_Witness ==
    /\ pc = "done"
    /\ main_outcome = "ok"
    /\ trace = StepOrder \o <<"cleanup">>
    /\ LogKinds(output_capture, "occurrences") # {}

====
